---- MODULE Spec2Model ----
(***************************************************************************)
(* Model of caer's setup.py: the module-level configuration code, the     *)
(* helpers get_contributors_list, write_meta and generate_cython, the     *)
(* build_ext override build_extension_class and setup_package.            *)
(***************************************************************************)
EXTENDS Integers, Sequences, FiniteSets, TLC

\* ------------------------------------------------------------------ bounds
MaxMissing == 1      \* keys a generated [metadata] section may lack
MaxLen == 4          \* characters in a generated CONTRIBUTORS file
MaxExt == 2          \* extensions handed to the build_ext command
MaxRuns == 3         \* invocations of setup.py in one behaviour

\* ------------------------------------------------------- program constants
MAJOR == 1
MINOR == 3
MICRO == 3
ISRELEASED == TRUE
VERSION == ToString(MAJOR) \o "." \o ToString(MINOR) \o "." \o ToString(MICRO)
\* Variant: the generation step switched off.
RUN_CYTHON_BUILD_off == FALSE

RUN_CYTHON_BUILD == TRUE

cfg_keys == <<"description", "keywords", "author", "author_email", "contributors">>

\* Variant: only cfg_keys are checked.
expected_cfg_keys_only == cfg_keys

expected == cfg_keys \o <<"name", "user", "git_branch", "license", "status",
                          "audience", "language", "dev_language">>

\* Keys of [metadata] and [options] the module-level code reads.
MetaKeys ==
  {"description", "keywords", "author", "author_email", "contributors", "name",
   "user", "git_branch", "license", "status", "audience", "language",
   "dev_language", "git_url", "download_url", "classifiers"}
OptKeys == {"pip_requirements", "min_python"}

EXTENSIONS ==
  << [name |-> "caer.cconvex",   sources |-> <<"caer/cconvex.cpp">>],
     [name |-> "caer.cconvolve", sources |-> <<"caer/cconvolve.cpp", "caer/cfilters.cpp">>],
     [name |-> "caer.cdistance", sources |-> <<"caer/cdistance.cpp">>],
     [name |-> "caer.cmorph",    sources |-> <<"caer/cmorph.cpp", "caer/cfilters.cpp">>],
     [name |-> "caer.ndi.cndi",  sources |-> <<"caer/ndi/cndimage.c",
                                              "caer/ndi/cndfilters.c",
                                              "caer/ndi/cndfourier.c",
                                              "caer/ndi/cndinterpolation.c",
                                              "caer/ndi/cndmeasure.c",
                                              "caer/ndi/cndmorphology.c",
                                              "caer/ndi/cndsplines.c",
                                              "caer/ndi/cndsupport.c">>] >>

\* setuptools.Extension(key, sources=..., include_dirs=[np.get_include()]);
\* the constructor leaves extra_compile_args at [].
Extension(key, sources, include_dirs) ==
  [name |-> key, sources |-> sources, include_dirs |-> include_dirs,
   extra_compile_args |-> <<>>]

BuildExtModules ==
  [i \in DOMAIN EXTENSIONS |->
     Extension(EXTENSIONS[i].name, EXTENSIONS[i].sources, <<"numpy/core/include">>)]

\* copt, as a function on its keys
copt == [c \in {"msvc", "intelw"} |-> <<"/EHsc">>]

Compilers == {"msvc", "intelw", "unix", "gcc", "mingw32"}

\* ------------------------------------------------------------------ errors
NoError == [type |-> "none", msg |-> ""]
KeyError(k) == [type |-> "KeyError", msg |-> k]
AssertionError(m) == [type |-> "AssertionError", msg |-> m]
FileNotFoundError(f) == [type |-> "FileNotFoundError", msg |-> f]
OSError(f) == [type |-> "OSError", msg |-> f]
RuntimeError(m) == [type |-> "RuntimeError", msg |-> m]
BackendError == [type |-> "SystemExit", msg |-> "error: command failed"]

\* ------------------------------------------------ get_contributors_list
Whitespace == {" ", "\t", "\n", "\r", "\f"}

\* Position of the first "\n" of text, or Len(text) when it has none:
\* the end of the first line a file iterator yields.
RECURSIVE FirstLineEnd(_, _)
FirstLineEnd(text, i) ==
  IF i >= Len(text) THEN Len(text)
  ELSE IF text[i] = "\n" THEN i
  ELSE FirstLineEnd(text, i + 1)

\* Iterating an open text file: the lines, each with its terminator.
RECURSIVE FileLines(_)
FileLines(text) ==
  IF text = <<>> THEN <<>>
  ELSE LET e == FirstLineEnd(text, 1)
       IN  <<SubSeq(text, 1, e)>> \o FileLines(SubSeq(text, e + 1, Len(text)))

RECURSIVE lstrip(_)
lstrip(s) == IF s # <<>> /\ Head(s) \in Whitespace THEN lstrip(Tail(s)) ELSE s

RECURSIVE rstrip(_)
rstrip(s) ==
  IF s # <<>> /\ s[Len(s)] \in Whitespace THEN rstrip(SubSeq(s, 1, Len(s) - 1)) ELSE s

\* Variant: str.lstrip() in place of str.strip().
strip_left_only(s) == lstrip(s)

\* str.strip()
strip(s) == rstrip(lstrip(s))

\* The loop of get_contributors_list over the lines not yet read.
RECURSIVE AppendStripped(_, _)
AppendStripped(contr0, lines) ==
  IF lines = <<>> THEN contr0
  ELSE AppendStripped(Append(contr0, strip(Head(lines))), Tail(lines))

get_contributors_list(text) == AppendStripped(<<>>, FileLines(text))

\* ------------------------------------------------------------- write_meta
\* A character sequence as a string.
RECURSIVE Str(_)
Str(s) == IF s = <<>> THEN "" ELSE Head(s) \o Str(Tail(s))

RECURSIVE ReprItems(_)
ReprItems(l) ==
  IF l = <<>> THEN ""
  ELSE "'" \o Str(Head(l)) \o "'" \o (IF Len(l) > 1 THEN ", " ELSE "") \o ReprItems(Tail(l))

\* str(list of str), as '%(contributors)s' formats it
ReprList(l) == "[" \o ReprItems(l) \o "]"

BoolStr(b) == IF b THEN "True" ELSE "False"

\* META_PY_TEXT % {...}: the lines of the rendered text, each newline-terminated.
META_PY_TEXT(author, version, full_version, isrelease, contributors) ==
  << "",
     "# This file is automatically generated during the generation of setup.py",
     "# Copyright 2020, Caer",
     "author = '" \o author \o "'",
     "version = '" \o version \o "'",
     "full_version = '" \o full_version \o "'",
     "release = " \o isrelease,
     "contributors = " \o contributors >>

\* Variant: open(filename, 'a').
OpenForWrite_append(old) == old

\* open(filename, 'w'): the content of the file once it is open.
OpenForWrite(old) == <<>>

\* ------------------------------------------------------ generate_cython
ExitCodes == {0, 1, 2, -9}

\* Variant: "if p > 0".
CythonizeFailed_positive(exit) == exit > 0

\* Variant: "if p == 1".
CythonizeFailed_one(exit) == exit = 1

\* "if p != 0: raise"
CythonizeFailed(exit) == exit # 0

\* Variant: the message reports the exit status.
CythonizeError_with_code(exit) ==
  RuntimeError("[ERROR] Running cythonize failed! " \o ToString(exit))

\* The error generate_cython raises for exit status exit.
CythonizeError(exit) == RuntimeError("[ERROR] Running cythonize failed!")

\* ------------------------------------------- build_extension_class hook
\* Variant: "e.extra_compile_args += copt[c]".
build_extensions_append(c, exts) ==
  IF c \in DOMAIN copt
  THEN [i \in DOMAIN exts |->
          [exts[i] EXCEPT !.extra_compile_args = exts[i].extra_compile_args \o copt[c]]]
  ELSE exts

\* build_extensions up to the call of build_ext.build_extensions(self).
build_extensions(c, exts) ==
  IF c \in DOMAIN copt
  THEN [i \in DOMAIN exts |-> [exts[i] EXCEPT !.extra_compile_args = copt[c]]]
  ELSE exts

\* =================================================================== state
VARIABLES
  pc,            \* position of the running setup.py
  run,           \* number of the current invocation of setup.py
  setup_cfg,     \* file setup.cfg: section name -> (key -> value)
  contribFile,   \* file CONTRIBUTORS: [exists, text]
  longDesc,      \* whether LONG_DESCRIPTION.md can be read
  metaFile,      \* file caer/_meta.py: its lines
  metaOpen,      \* whether the handle a of write_meta is open
  cfg,           \* config['metadata']
  opt,           \* config['options']
  AUTHOR_LONG,
  CONTRIBUTORS,  \* local of write_meta
  EXT_MODULES,
  error,         \* the exception in flight, or raised out of the script
  p,             \* <<exit status>> of the cythonize subprocess, <<>> before it ran
  delegated,     \* whether setup(**metadata) was called
  extensions,    \* self.extensions of the build_ext command
  compiler,      \* self.compiler.compiler_type seen by build_extensions
  effects,       \* files touched and processes started by this invocation
  stages,        \* pipeline stages this invocation has completed, in order
  metaAtStart,   \* content of caer/_meta.py when this invocation started
  written,       \* content of caer/_meta.py after each write_meta that returned
  raised         \* <<exit status, error>> of each failed generate_cython

vars == <<pc, run, setup_cfg, contribFile, longDesc, metaFile, metaOpen, cfg, opt,
          AUTHOR_LONG, CONTRIBUTORS, EXT_MODULES, error, p, delegated, extensions,
          compiler, effects, stages, metaAtStart, written, raised>>

inputs == <<setup_cfg, contribFile, longDesc>>

EmptySection == [k \in {} |-> ""]

\* ------------------------------------------------------------ input files
Authors == {"Jason Dsouza", "Ann Lee"}

MetaValue(k, author) ==
  IF k = "author" THEN author
  ELSE IF k = "author_email" THEN "jasmcaus@gmail.com"
  ELSE k \o " value"

MissingSets == {S \in SUBSET MetaKeys : Cardinality(S) <= MaxMissing}

MetadataSections ==
  {[k \in MetaKeys \ miss |-> MetaValue(k, a)] : miss \in MissingSets, a \in Authors}

OptionsSections ==
  {[k \in OptKeys \ miss |-> k \o " value"] :
     miss \in {{}, {"pip_requirements"}, {"min_python"}}}

ConfigSources ==
  {[s \in secs |-> IF s = "metadata" THEN m ELSE o] :
     secs \in {{"metadata", "options"}, {"metadata"}, {"options"}},
     m \in MetadataSections, o \in OptionsSections}

ContribSamples ==
  { [exists |-> FALSE, text |-> <<>>],
    [exists |-> TRUE,  text |-> <<"a", "\n">>],
    [exists |-> TRUE,  text |-> <<" ", "a", "\n", " ", "\n", "b">>] }

RECURSIVE SeqsUpTo(_, _)
SeqsUpTo(S, n) ==
  IF n = 0 THEN {<<>>}
  ELSE LET shorter == SeqsUpTo(S, n - 1)
       IN  shorter \cup {Append(s, c) : s \in shorter, c \in S}

ContribTexts == SeqsUpTo({"a", " ", "\n"}, MaxLen)

MetaSamples == {<<>>, <<"# stale">>}

\* ------------------------------------------------------------------- Init
\* The per-invocation state of a freshly started interpreter.
FreshAt(pos, exts) ==
  /\ pc = pos
  /\ metaOpen = FALSE
  /\ cfg = EmptySection
  /\ opt = EmptySection
  /\ AUTHOR_LONG = ""
  /\ CONTRIBUTORS = <<>>
  /\ EXT_MODULES = <<>>
  /\ error = NoError
  /\ p = <<>>
  /\ delegated = (pos = "backend")
  /\ extensions = exts
  /\ compiler = ""
  /\ effects = <<>>
  /\ stages = <<>>

Fresh == FreshAt("read_config", <<>>)

Init ==
  /\ Fresh
  /\ run = 1
  /\ setup_cfg \in ConfigSources
  /\ contribFile \in ContribSamples
  /\ longDesc \in BOOLEAN
  /\ metaFile \in MetaSamples
  /\ metaAtStart = metaFile
  /\ written = <<>>
  /\ raised = {}

\* ---------------------------------------------------------------- helpers
perRun == <<metaOpen, cfg, opt, AUTHOR_LONG, CONTRIBUTORS, EXT_MODULES, p,
            delegated, extensions, compiler>>

\* An exception leaves the script: the interpreter exits.
Raise(e) ==
  /\ pc' = "Failed"
  /\ error' = e
  /\ stages' = Append(stages, "Failed")

Effect(e) == effects' = Append(effects, e)

\* ------------------------------------------------- module-level statements
\* config.read('setup.cfg'); cfg = config['metadata']; opt = config['options']
ReadConfig ==
  /\ pc = "read_config"
  /\ Effect("read setup.cfg")
  /\ IF "metadata" \notin DOMAIN setup_cfg
     THEN /\ Raise(KeyError("metadata"))
          /\ UNCHANGED <<cfg, opt>>
     ELSE IF "options" \notin DOMAIN setup_cfg
     THEN /\ Raise(KeyError("options"))
          /\ cfg' = setup_cfg["metadata"]
          /\ UNCHANGED opt
     ELSE /\ cfg' = setup_cfg["metadata"]
          /\ opt' = setup_cfg["options"]
          /\ pc' = "check_expected"
          /\ UNCHANGED <<error, stages>>
  /\ UNCHANGED <<run, inputs, metaFile, metaOpen, AUTHOR_LONG, CONTRIBUTORS,
                 EXT_MODULES, p, delegated, extensions, compiler, metaAtStart,
                 written, raised>>

\* Indices of the expected settings the section c lacks.
MissingExpected(c) == {i \in DOMAIN expected : expected[i] \notin DOMAIN c}

Min(S) == CHOOSE x \in S : \A y \in S : x <= y

\* for i in expected: assert i in cfg, f'Missing expected setting: {i}'
CheckExpected ==
  /\ pc = "check_expected"
  /\ IF MissingExpected(cfg) # {}
     THEN Raise(AssertionError("Missing expected setting: "
                               \o expected[Min(MissingExpected(cfg))]))
     ELSE /\ pc' = "define_vars"
          /\ UNCHANGED <<error, stages>>
  /\ UNCHANGED <<run, inputs, metaFile, perRun, effects, metaAtStart, written, raised>>

\* The first statement of lines 99-113 that raises, as the error it raises.
DefineVarsError ==
  IF "git_url" \notin DOMAIN cfg THEN KeyError("git_url")
  ELSE IF "download_url" \notin DOMAIN cfg THEN KeyError("download_url")
  ELSE IF ~longDesc THEN FileNotFoundError("LONG_DESCRIPTION.md")
  ELSE IF "pip_requirements" \notin DOMAIN opt THEN KeyError("pip_requirements")
  ELSE IF "classifiers" \notin DOMAIN cfg THEN KeyError("classifiers")
  ELSE IF "min_python" \notin DOMAIN opt THEN KeyError("min_python")
  ELSE NoError

\* NAME = cfg['name'] ... PYTHON_REQUIRES = '>=' + opt['min_python']
DefineSetupVariables ==
  /\ pc = "define_vars"
  /\ AUTHOR_LONG' = cfg["author"] \o " <" \o cfg["author_email"] \o ">"
  /\ IF {"git_url", "download_url"} \subseteq DOMAIN cfg
     THEN Effect("read LONG_DESCRIPTION.md")
     ELSE UNCHANGED effects
  /\ IF DefineVarsError # NoError
     THEN Raise(DefineVarsError)
     ELSE /\ pc' = "ext_modules"
          /\ UNCHANGED <<error, stages>>
  /\ UNCHANGED <<run, inputs, metaFile, metaOpen, cfg, opt, CONTRIBUTORS,
                 EXT_MODULES, p, delegated, extensions, compiler, metaAtStart,
                 written, raised>>

\* EXT_MODULES = [Extension(...) for key, sources in EXTENSIONS.items()]
DefineExtModules ==
  /\ pc = "ext_modules"
  /\ EXT_MODULES' = BuildExtModules
  /\ stages' = Append(stages, "Described")
  /\ pc' = "wm_contrib"
  /\ UNCHANGED <<run, inputs, metaFile, metaOpen, cfg, opt, AUTHOR_LONG,
                 CONTRIBUTORS, error, p, delegated, extensions, compiler,
                 effects, metaAtStart, written, raised>>

\* -------------------------------------------------------------- write_meta
\* Variant: a missing file reads as an empty one.
CanRead_always(f) == TRUE

\* open(filename, 'r') of get_contributors_list succeeds.
CanRead(f) == f.exists

\* CONTRIBUTORS = get_contributors_list()
WmGetContributors ==
  /\ pc = "wm_contrib"
  /\ Effect("read CONTRIBUTORS")
  /\ IF CanRead(contribFile)
     THEN /\ CONTRIBUTORS' = get_contributors_list(contribFile.text)
          /\ pc' = "wm_open"
          /\ UNCHANGED <<error, stages>>
     ELSE /\ Raise(FileNotFoundError("CONTRIBUTORS"))
          /\ UNCHANGED CONTRIBUTORS
  /\ UNCHANGED <<run, inputs, metaFile, metaOpen, cfg, opt, AUTHOR_LONG,
                 EXT_MODULES, p, delegated, extensions, compiler, metaAtStart,
                 written, raised>>

\* a = open(filename, 'w'); the open itself can fail and then touches nothing.
WmOpen ==
  /\ pc = "wm_open"
  /\ \E ok \in BOOLEAN :
       IF ok
       THEN /\ metaFile' = OpenForWrite(metaFile)
            /\ metaOpen' = TRUE
            /\ Effect("open caer/_meta.py")
            /\ pc' = "wm_write"
            /\ UNCHANGED <<error, stages>>
       ELSE /\ Raise(OSError("caer/_meta.py"))
            /\ UNCHANGED <<metaFile, metaOpen, effects>>
  /\ UNCHANGED <<run, inputs, cfg, opt, AUTHOR_LONG, CONTRIBUTORS, EXT_MODULES,
                 p, delegated, extensions, compiler, metaAtStart, written, raised>>

\* The text write_meta renders from its inputs.
MetaText(author_long, contributors) ==
  META_PY_TEXT(author_long, VERSION, VERSION, BoolStr(ISRELEASED), ReprList(contributors))

\* try: a.write(TEXT % {...}).  A write that fails has put a proper prefix
\* of the text (possibly nothing) into the file.
WmWrite ==
  /\ pc = "wm_write"
  /\ LET text == MetaText(AUTHOR_LONG, CONTRIBUTORS)
     IN  \E k \in 0..Len(text) :
           /\ metaFile' = metaFile \o SubSeq(text, 1, k)
           /\ error' = IF k = Len(text) THEN NoError ELSE OSError("caer/_meta.py")
  /\ Effect("write caer/_meta.py")
  /\ pc' = "wm_finally"
  /\ UNCHANGED <<run, inputs, metaOpen, cfg, opt, AUTHOR_LONG, CONTRIBUTORS,
                 EXT_MODULES, p, delegated, extensions, compiler, stages,
                 metaAtStart, written, raised>>

\* Variant: a.close() after the write, without try/finally.
HandleAfterTry_no_finally(pending) == pending # NoError

\* Whether the handle is open once the try statement is left.
HandleAfterTry(pending) == FALSE

\* Where control goes after the finally clause.
AfterFinally(pending) == IF pending # NoError THEN "Failed" ELSE "generate"

\* finally: a.close(); then the pending exception, if any, propagates.
WmFinally ==
  /\ pc = "wm_finally"
  /\ metaOpen' = HandleAfterTry(error)
  /\ pc' = AfterFinally(error)
  /\ IF pc' = "Failed"
     THEN /\ stages' = Append(stages, "Failed")
          /\ UNCHANGED written
     ELSE /\ stages' = Append(stages, "MetaWritten")
          /\ written' = Append(written, metaFile)
  /\ UNCHANGED <<run, inputs, metaFile, cfg, opt, AUTHOR_LONG, CONTRIBUTORS,
                 EXT_MODULES, error, p, delegated, extensions, compiler, effects,
                 metaAtStart, raised>>

\* ---------------------------------------------------------- setup_package
\* run_build = RUN_CYTHON_BUILD; if run_build: generate_cython()
GenerateCython ==
  /\ pc = "generate"
  /\ IF RUN_CYTHON_BUILD
     THEN \E exit \in ExitCodes :
            /\ p' = <<exit>>
            /\ Effect("run tools/cythonize.py")
            /\ IF CythonizeFailed(exit)
               THEN /\ Raise(CythonizeError(exit))
                    /\ raised' = raised \cup {<<exit, CythonizeError(exit)>>}
               ELSE /\ pc' = "setup"
                    /\ stages' = Append(stages, "Generated")
                    /\ UNCHANGED <<error, raised>>
     ELSE /\ pc' = "setup"
          /\ UNCHANGED <<p, effects, error, stages, raised>>
  /\ UNCHANGED <<run, inputs, metaFile, metaOpen, cfg, opt, AUTHOR_LONG,
                 CONTRIBUTORS, EXT_MODULES, delegated, extensions, compiler,
                 metaAtStart, written>>

\* setup(**metadata), with ext_modules = EXT_MODULES and cmdclass = CMDCLASS
Setup ==
  /\ pc = "setup"
  /\ delegated' = TRUE
  /\ extensions' = EXT_MODULES
  /\ Effect("setup")
  /\ stages' = Append(stages, "Delegated")
  /\ pc' = "backend"
  /\ UNCHANGED <<run, inputs, metaFile, metaOpen, cfg, opt, AUTHOR_LONG,
                 CONTRIBUTORS, EXT_MODULES, error, p, compiler, metaAtStart,
                 written, raised>>

\* --------------------------------------------------------------- backend
\* The backend runs build_ext: build_extension_class.build_extensions up to
\* its call of build_ext.build_extensions(self).
HookBuildExtensions ==
  /\ pc = "backend"
  /\ \E c \in Compilers :
       /\ compiler' = c
       /\ extensions' = build_extensions(c, extensions)
  /\ Effect("build_ext")
  /\ pc' = "compile"
  /\ UNCHANGED <<run, inputs, metaFile, metaOpen, cfg, opt, AUTHOR_LONG,
                 CONTRIBUTORS, EXT_MODULES, error, p, delegated, stages,
                 metaAtStart, written, raised>>

\* The backend's outcome: setup() returns or exits with an error.
BackendOutcome(ok) ==
  IF ok
  THEN /\ pc' = "Done"
       /\ stages' = Append(stages, "Done")
       /\ UNCHANGED error
  ELSE Raise(BackendError)

\* build_ext.build_extensions(self): the backend compiles the extensions.
BackendCompile ==
  /\ pc = "compile"
  /\ \E ok \in BOOLEAN : BackendOutcome(ok)
  /\ UNCHANGED <<run, inputs, metaFile, perRun, effects, metaAtStart, written, raised>>

\* The backend runs a sub-command that does not build extensions.
BackendOther ==
  /\ pc = "backend"
  /\ \E ok \in BOOLEAN : BackendOutcome(ok)
  /\ UNCHANGED <<run, inputs, metaFile, perRun, effects, metaAtStart, written, raised>>

\* setup.py is run again on the same files.
Rerun ==
  /\ pc \in {"Done", "Failed"}
  /\ run < MaxRuns
  /\ run' = run + 1
  /\ pc' = "read_config"
  /\ metaOpen' = FALSE
  /\ cfg' = EmptySection
  /\ opt' = EmptySection
  /\ AUTHOR_LONG' = ""
  /\ CONTRIBUTORS' = <<>>
  /\ EXT_MODULES' = <<>>
  /\ error' = NoError
  /\ p' = <<>>
  /\ delegated' = FALSE
  /\ extensions' = <<>>
  /\ compiler' = ""
  /\ effects' = <<>>
  /\ stages' = <<>>
  /\ metaAtStart' = metaFile
  /\ UNCHANGED <<inputs, metaFile, written, raised>>

Next ==
  \/ ReadConfig
  \/ CheckExpected
  \/ DefineSetupVariables
  \/ DefineExtModules
  \/ WmGetContributors
  \/ WmOpen
  \/ WmWrite
  \/ WmFinally
  \/ GenerateCython
  \/ Setup
  \/ HookBuildExtensions
  \/ BackendCompile
  \/ BackendOther
  \/ Rerun

Spec == Init /\ [][Next]_vars

\* ------------------------------------------ get_contributors_list alone
\* write_meta about to read a CONTRIBUTORS file of any content.
InitContrib ==
  /\ FreshAt("wm_contrib", <<>>)
  /\ run = 1
  /\ setup_cfg \in {s \in ConfigSources : DOMAIN s = {"metadata", "options"}
                                          /\ DOMAIN s["metadata"] = MetaKeys
                                          /\ DOMAIN s["options"] = OptKeys}
  /\ contribFile \in {[exists |-> TRUE, text |-> t] : t \in ContribTexts}
  /\ longDesc = TRUE
  /\ metaFile = <<>>
  /\ metaAtStart = metaFile
  /\ written = <<>>
  /\ raised = {}

NextContrib == WmGetContributors

SpecContrib == InitContrib /\ [][NextContrib]_vars

\* -------------------------------------------- build_extension_class alone
ArgLists == {<<>>, <<"-O2">>, <<"/EHsc", "/W3">>}

\* Lists of at most n extensions with any prior extra_compile_args.
RECURSIVE ExtensionLists(_)
ExtensionLists(n) ==
  IF n = 0 THEN {<<>>}
  ELSE LET shorter == ExtensionLists(n - 1)
       IN  shorter \cup
           {Append(l, [BuildExtModules[Len(l) + 1] EXCEPT !.extra_compile_args = a]) :
              l \in {x \in shorter : Len(x) = n - 1}, a \in ArgLists}

\* A build_ext command of the backend about to build any list of extensions.
InitHook ==
  /\ \E exts \in ExtensionLists(MaxExt) : FreshAt("backend", exts)
  /\ run = 1
  /\ setup_cfg \in {s \in ConfigSources : DOMAIN s = {"metadata", "options"}
                                          /\ DOMAIN s["metadata"] = MetaKeys
                                          /\ DOMAIN s["options"] = OptKeys}
  /\ contribFile = [exists |-> TRUE, text |-> <<"a", "\n">>]
  /\ longDesc = TRUE
  /\ metaFile = <<>>
  /\ metaAtStart = metaFile
  /\ written = <<>>
  /\ raised = {}

NextHook == HookBuildExtensions \/ BackendCompile

SpecHook == InitHook /\ [][NextHook]_vars

\* ================================================================ properties
Range(s) == {s[i] : i \in DOMAIN s}

IsPrefix(s, t) == Len(s) <= Len(t) /\ s = SubSeq(t, 1, Len(s))

\* The generator ran in this invocation and exited with a non-zero status.
GeneratorFailed == p # <<>> /\ p[1] # 0

\* The thirteen keys the metadata section must have.
RequiredKeys ==
  {"description", "keywords", "author", "author_email", "contributors", "name",
   "user", "git_branch", "license", "status", "audience", "language",
   "dev_language"}

\* The required keys the metadata section of setup.cfg lacks.
LackingKeys == RequiredKeys \ DOMAIN setup_cfg["metadata"]

\* The text caer/_meta.py must hold, written out from the input files.
ExpectedMeta ==
  << "",
     "# This file is automatically generated during the generation of setup.py",
     "# Copyright 2020, Caer",
     "author = '" \o setup_cfg["metadata"]["author"] \o " <jasmcaus@gmail.com>'",
     "version = '1.3.3'",
     "full_version = '1.3.3'",
     "release = True",
     IF contribFile.text = <<"a", "\n">>
     THEN "contributors = ['a']"
     ELSE "contributors = ['a', '', 'b']" >>

\* ---- C1
\* C1: setup(...) is called only after the cythonize subprocess has exited
\* with status 0; after any non-zero exit the invocation is Failed, setup is
\* not called and the subprocess is the last side effect of the invocation.
C1_BackendOnlyAfterGeneration ==
  /\ delegated =>
       /\ p = <<0>>
       /\ \E i, j \in DOMAIN effects :
            /\ i < j
            /\ effects[i] = "run tools/cythonize.py"
            /\ effects[j] = "setup"
  /\ GeneratorFailed =>
       /\ pc = "Failed"
       /\ ~delegated
       /\ extensions = <<>>
       /\ ~metaOpen
       /\ effects[Len(effects)] = "run tools/cythonize.py"

C1_Witness == GeneratorFailed /\ pc = "Failed" /\ p = <<-9>>

\* ---- C2
\* C2 as stated: once the generator has failed no extension descriptor exists.
C2_Original == GeneratorFailed => EXT_MODULES = <<>>

\* C2 amended: once the generator has failed the invocation is Failed and no
\* descriptor has been handed to the backend or compiled; the descriptors
\* themselves exist, one per entry of EXTENSIONS, built before the generator ran.
C2_NoDescriptorDelegated ==
  GeneratorFailed =>
    /\ pc = "Failed"
    /\ ~delegated
    /\ extensions = <<>>
    /\ "build_ext" \notin Range(effects)
    /\ Len(EXT_MODULES) = Len(EXTENSIONS)
    /\ \A i \in DOMAIN EXT_MODULES : EXT_MODULES[i].name = EXTENSIONS[i].name

C2_Witness == GeneratorFailed /\ pc = "Failed" /\ Len(EXT_MODULES) = 5

\* ---- C3
\* What C3 requires of a failed load that must name key k.
FailedNaming(k) ==
  /\ pc = "Failed"
  /\ error = AssertionError("Missing expected setting: " \o k)
  /\ effects = <<"read setup.cfg">>
  /\ metaFile = metaAtStart
  /\ p = <<>>
  /\ ~delegated

\* C3 as stated: whenever the metadata section lacks exactly one required
\* key, loading fails naming that key, before any other side effect.
C3_Original ==
  ( /\ "metadata" \in DOMAIN setup_cfg
    /\ Cardinality(LackingKeys) = 1
    /\ pc \notin {"read_config", "check_expected"} )
  => \A k \in LackingKeys : FailedNaming(k)

\* C3 amended: the same, for a setup.cfg that also has an options section.
C3_MissingKeyNamed ==
  ( /\ {"metadata", "options"} \subseteq DOMAIN setup_cfg
    /\ Cardinality(LackingKeys) = 1
    /\ pc \notin {"read_config", "check_expected"} )
  => \A k \in LackingKeys : FailedNaming(k)

C3_Witness ==
  /\ {"metadata", "options"} \subseteq DOMAIN setup_cfg
  /\ LackingKeys = {"dev_language"}
  /\ FailedNaming("dev_language")

\* ---- C4
\* C4: when build_extensions hands over to build_ext.build_extensions, a
\* compiler type that is a key of copt has given every extension exactly
\* copt's flag list as extra_compile_args, whatever it held before and with
\* nothing else changed; any other compiler type has changed nothing; and no
\* error is raised.
C4_HookSetsFlags ==
  [][ (pc = "backend" /\ pc' = "compile") =>
        /\ error' = NoError
        /\ IF compiler' \in {"msvc", "intelw"}
           THEN /\ Len(extensions') = Len(extensions)
                /\ \A i \in DOMAIN extensions :
                     /\ extensions'[i].extra_compile_args = <<"/EHsc">>
                     /\ extensions'[i].name = extensions[i].name
                     /\ extensions'[i].sources = extensions[i].sources
                     /\ extensions'[i].include_dirs = extensions[i].include_dirs
           ELSE extensions' = extensions ]_vars

C4_Witness ==
  /\ pc = "compile"
  /\ compiler = "msvc"
  /\ Len(extensions) >= 2
  /\ \A i \in DOMAIN extensions : extensions[i].extra_compile_args = <<"/EHsc">>

\* ---- C5
\* The stages completed so far follow order, or a proper prefix of order
\* followed by Failed.
FollowsOrder(order) ==
  \/ IsPrefix(stages, order)
  \/ /\ stages # <<>>
     /\ stages[Len(stages)] = "Failed"
     /\ Len(stages) - 1 < Len(order)
     /\ IsPrefix(SubSeq(stages, 1, Len(stages) - 1), order)

\* C5 as stated: the stages run in the order MetaWritten, Generated,
\* Described, Delegated, Done.
C5_Original ==
  FollowsOrder(<<"MetaWritten", "Generated", "Described", "Delegated", "Done">>)

\* C5 amended: within one invocation the stages run in the order Described,
\* MetaWritten, Generated, Delegated, Done, each at most once and each only
\* after its predecessor, or end in Failed; and once the invocation is Done
\* or Failed nothing happens but a new invocation.
C5_StageOrder ==
  /\ [](FollowsOrder(<<"Described", "MetaWritten", "Generated", "Delegated", "Done">>))
  /\ []((pc = "Failed") <=> (stages # <<>> /\ stages[Len(stages)] = "Failed"))
  /\ [][(pc \in {"Failed", "Done"}) => (run' = run + 1)]_vars

C5_Witness ==
  /\ pc = "Done"
  /\ stages = <<"Described", "MetaWritten", "Generated", "Delegated", "Done">>

\* ---- C6
Blank == {" ", "\t", "\n", "\r", "\f"}

NewlinePositions(text) == {i \in DOMAIN text : text[i] = "\n"}

\* One line per newline, and one more for an unterminated tail.
NumLines(text) ==
  Cardinality(NewlinePositions(text))
    + (IF text # <<>> /\ text[Len(text)] # "\n" THEN 1 ELSE 0)

\* The position of the last character of line k of text.
LineEnd(text, k) ==
  IF k <= Cardinality(NewlinePositions(text))
  THEN CHOOSE q \in NewlinePositions(text) :
         Cardinality({r \in NewlinePositions(text) : r <= q}) = k
  ELSE Len(text)

\* Line k of text, its newline included.
Line(text, k) ==
  SubSeq(text, IF k = 1 THEN 1 ELSE LineEnd(text, k - 1) + 1, LineEnd(text, k))

\* t is line without its leading and trailing blanks.
IsTrimmed(line, t) ==
  \E lo \in 1..(Len(line) + 1), hi \in 0..Len(line) :
    /\ t = SubSeq(line, lo, hi)
    /\ \A i \in 1..(lo - 1) : line[i] \in Blank
    /\ \A i \in (hi + 1)..Len(line) : line[i] \in Blank
    /\ t = <<>> \/ (t[1] \notin Blank /\ t[Len(t)] \notin Blank)

\* C6: get_contributors_list returns one element per line of the file, in
\* order, element k being line k without its leading and trailing
\* whitespace; a blank line gives the empty string and is kept.
C6_OnePerLineTrimmed ==
  (pc = "wm_open") =>
    /\ Len(CONTRIBUTORS) = NumLines(contribFile.text)
    /\ \A k \in DOMAIN CONTRIBUTORS :
         IsTrimmed(Line(contribFile.text, k), CONTRIBUTORS[k])

C6_Witness ==
  /\ pc = "wm_open"
  /\ contribFile.text = <<"a", "\n", " ", "\n">>
  /\ CONTRIBUTORS = << <<"a">>, <<>> >>

\* ---- C7
\* C7: every write_meta that returns leaves caer/_meta.py holding the text
\* rendered from the author, the version, the release flag and the
\* contributors file, whatever the file held before; so a second write_meta
\* on the same inputs leaves the bytes the first one left.
C7_Idempotent ==
  /\ \A i \in DOMAIN written : written[i] = ExpectedMeta
  /\ "MetaWritten" \in Range(stages) => metaFile = ExpectedMeta

C7_Witness ==
  /\ Len(written) >= 2
  /\ "MetaWritten" \in Range(stages)
  /\ metaAtStart # <<>>
  /\ metaAtStart # metaFile

\* ---- C8
\* C8: the handle on caer/_meta.py is open only inside the try statement;
\* the finally clause closes it on every path, and an error raised by the
\* write then leaves write_meta unchanged and ends the invocation in Failed.
C8_ClosedAndPropagated ==
  /\ [](metaOpen => pc \in {"wm_write", "wm_finally"})
  /\ [][ (pc = "wm_finally") =>
           /\ metaOpen' = FALSE
           /\ error # NoError => (pc' = "Failed" /\ error' = error)
           /\ error = NoError => (pc' = "generate" /\ error' = NoError) ]_vars

C8_Witness ==
  /\ pc = "Failed"
  /\ error = OSError("caer/_meta.py")
  /\ "write caer/_meta.py" \in Range(effects)
  /\ ~metaOpen

\* ---- C9
\* C9 as stated: the error raised for a non-zero exit status determines the
\* status.
C9_Original == \A a, b \in raised : a[2] = b[2] => a[1] = b[1]

\* C9 amended: for every non-zero exit status generate_cython raises the
\* same RuntimeError, whose only argument is the fixed message; the status
\* stays in the local p.
C9_FixedMessage ==
  /\ \A a \in raised :
       /\ a[1] # 0
       /\ a[2] = [type |-> "RuntimeError", msg |-> "[ERROR] Running cythonize failed!"]
  /\ GeneratorFailed =>
       /\ <<p[1], error>> \in raised
       /\ pc = "Failed"

C9_Witness == Cardinality({a[1] : a \in raised}) >= 2 /\ GeneratorFailed

\* ---- C10
\* C10: when CONTRIBUTORS cannot be read, write_meta fails before it opens
\* caer/_meta.py: the file keeps the content it had, no generator runs and
\* setup is not called.  When the write fails after the open, the file holds
\* a proper prefix of the new text and nothing of its former content.
C10_UnreadableContributors ==
  /\ (~contribFile.exists /\ "read CONTRIBUTORS" \in Range(effects)) =>
       /\ pc = "Failed"
       /\ error = FileNotFoundError("CONTRIBUTORS")
       /\ metaFile = metaAtStart
       /\ "open caer/_meta.py" \notin Range(effects)
       /\ p = <<>>
       /\ ~delegated
  /\ (pc = "Failed" /\ "write caer/_meta.py" \in Range(effects)
        /\ error = OSError("caer/_meta.py")) =>
       /\ Len(metaFile) < Len(ExpectedMeta)
       /\ IsPrefix(metaFile, ExpectedMeta)

C10_Witness ==
  /\ ~contribFile.exists
  /\ pc = "Failed"
  /\ error = FileNotFoundError("CONTRIBUTORS")
  /\ metaFile = <<"# stale">>

====
